---- MODULE Spec2Model ----
(***************************************************************************)
(* Model of fire_emblem_data_scraper: the CharactersSpider extraction      *)
(* rules (spiders/characters/characters.py).                               *)
(*                                                                         *)
(* A string is a sequence of one-character strings, so that the XPath      *)
(* contains() test, Python's str.lower() and string concatenation are      *)
(* computed rather than assumed.  A document is a record that keeps the    *)
(* parts of the HTML tree the spider's XPath expressions look at.          *)
(***************************************************************************)
EXTENDS Naturals, Integers, Sequences, FiniteSets, Bags, TLC

\* parse_character: its argument, the item it builds, its position, its
\* outcome and the extractors it has called
VARIABLES response, character_item, pc, result, called

\* parse: its argument, its two locals, its position and the requests yielded
VARIABLES listing, character_links, next_page_link, gpc, requests

\* MongoPipeline: its attributes, its life cycle, the MongoClient objects
\* created, the Python objects (items and documents) by identity, the
\* insert_one calls performed and the values process_item returned
VARIABLES pipeline, phase, clients, objects, inserted, returned

\* a crawl: the listing pages of the site by position, the requests the
\* scheduler still holds, how often each listing page was parsed, and the
\* detail URLs that were fetched, and the parity of the number of responses
\* handed to a callback
VARIABLES site, frontier, visits, detailed, turn

\* concurrent parse_character invocations: one frame of locals per invocation
VARIABLES frames

characterVars == <<response, character_item, pc, result, called>>
parseVars == <<listing, character_links, next_page_link, gpc, requests>>
mongoVars == <<pipeline, phase, clients, objects, inserted, returned>>
crawlVars == <<site, frontier, visits, detailed, turn>>
frameVars == <<frames>>

vars == <<characterVars, parseVars, mongoVars, crawlVars, frameVars>>

(***************************************************************************)
(* Bounds of the input space.                                              *)
(***************************************************************************)
\* longest image list drawn from the full pool of image elements
MaxImgs == 2
\* longest image list of the gallery family (distinct sources)
MaxGallery == 5
\* most links of an appearances cell
MaxLinks == 3
\* most li / p blocks of a titles cell
MaxTitleBlocks == 3
\* most sibling nodes of a voice-actor list item
MaxVoiceNodes == 4
\* most anchors of a listing page
MaxAnchors == 3
\* most items handed to the pipeline in one run
MaxItems == 3
\* most listing pages of a site
MaxPages == 3
\* most requests the scheduler holds before it stops fetching listing pages
MaxFrontier == 2
\* the count of parse calls per listing page saturates here
MaxVisits == 2
\* most parse_character invocations running at once
MaxFrames == 2

(***************************************************************************)
(* Strings.                                                                *)
(***************************************************************************)
Range(s) == {s[i] : i \in 1..Len(s)}

\* XPath contains(s, sub): sub occurs in s as a contiguous run
Contains(s, sub) ==
    \E i \in 0..(Len(s) - Len(sub)) : SubSeq(s, i + 1, i + Len(sub)) = sub

LowerChar(c) ==
    CASE c = "I" -> "i"
      [] c = "K" -> "k"
      [] c = "E" -> "e"
      [] c = "A" -> "a"
      [] OTHER -> c

\* Python str.lower()
Lower(s) == [i \in 1..Len(s) |-> LowerChar(s[i])]

\* the value of an XPath .get() that matched nothing; differs from every string
None == <<"None">>

\* Python truthiness of a str-or-None value
Truthy(x) == x # None /\ x # <<>>

\* SelectorList.get(): the first match, or None
XPathGet(matches) == IF matches = <<>> THEN None ELSE Head(matches)

BASE_URL ==
    <<"h","t","t","p","s",":","/","/","f","i","r","e","e","m","b","l","e","m",
      "w","i","k","i",".","o","r","g">>

\* the configured maximum of otherImages (fire_emblem_data_scraper.constants)
MAX_NUM_OTHER_IMAGES == 2

(***************************************************************************)
(* Python list helpers used by __parse_images.                             *)
(***************************************************************************)
\* a list(...) that keeps the duplicates
KeepDuplicates(s) == s

RECURSIVE OrderedDictFromKeys(_)
\* list(OrderedDict.fromkeys(s)): duplicates dropped, first-seen order kept
OrderedDictFromKeys(s) ==
    IF s = <<>> THEN <<>>
    ELSE LET init == OrderedDictFromKeys(SubSeq(s, 1, Len(s) - 1))
             last == s[Len(s)]
         IN  IF last \in Range(init) THEN init ELSE Append(init, last)

\* index of the first occurrence of x in s (x must occur)
IndexOf(s, x) == CHOOSE i \in 1..Len(s) : s[i] = x /\ \A j \in 1..(i - 1) : s[j] # x

\* list.remove(x): drops the first occurrence of x
ListRemove(s, x) ==
    LET i == IndexOf(s, x)
    IN  SubSeq(s, 1, i - 1) \o SubSeq(s, i + 1, Len(s))

\* a slice that keeps one element too many
SliceOneMore(s, n) == SubSeq(s, 1, IF Len(s) < n + 1 THEN Len(s) ELSE n + 1)

\* s[:n]
Slice(s, n) == SubSeq(s, 1, IF Len(s) < n THEN Len(s) ELSE n)

RECURSIVE Flatten(_)
\* concatenation of a sequence of sequences (document order is kept)
Flatten(ss) == IF ss = <<>> THEN <<>> ELSE Head(ss) \o Flatten(Tail(ss))

(***************************************************************************)
(* Detail-page documents.                                                  *)
(*   h1s  : the h1 elements, each with its id and its child nodes          *)
(*   imgs : the img elements, each with its src, the class of the anchor   *)
(*          that encloses it and the style of the div.tab_content that     *)
(*          encloses that anchor ("noTab" when there is none)              *)
(*   rows : the table rows, each with the child nodes of its th and the    *)
(*          li / p blocks of its td; a block holds inline nodes            *)
(* A node is a text node (tag "#text") or an element with its own text;    *)
(* text <<>> on an element means that the element has no text node.        *)
(***************************************************************************)
Txt(t) == [tag |-> "#text", text |-> t, title |-> None]
El(tg, t) == [tag |-> tg, text |-> t, title |-> None]
Link(t, ttl) == [tag |-> "a", text |-> t, title |-> ttl]
Img(s, a, t) == [src |-> s, anchor |-> a, tab |-> t]

Ike == <<"I","k","e">>
IkeLower == <<"i","k","e">>
IkeQuoted == <<"I","\"","k">>
SrcIke == <<"/","I","k","e">>
SrcLower == <<"/","i","k","e">>
SrcUpper == <<"/","I","K","E">>
SrcA == <<"/","a",".","p","n","g">>
SrcB == <<"/","b",".","j","p","g">>
SrcC == <<"/","c",".","j","p","g">>
Digit(i) == <<"0","1","2","3","4","5","6","7","8","9">>[i + 1]
\* the i-th distinct source of a gallery, containing "ike"
SrcN(i) == SrcLower \o <<Digit(i)>>

Block == "display:block;"
Hidden == "display:none;"

\* the strings the XPath expressions of the spider look for
LabelAppearance == <<"A","p","p","e","a","r","a","n","c","e">>
LabelTitle == <<"T","i","t","l","e">>
LabelVoice == <<"V","o","i","c","e">>
English == <<"E","n","g","l","i","s","h">>
Japanese == <<"J","a","p","a","n","e","s","e">>

Headings ==
    { <<>>,
      << [id |-> "firstHeading", kids |-> <<>>] >>,
      << [id |-> "firstHeading", kids |-> <<Txt(Ike)>>] >>,
      << [id |-> "firstHeading", kids |-> <<Txt(IkeLower)>>] >>,
      << [id |-> "firstHeading", kids |-> <<El("span", Ike)>>] >>,
      << [id |-> "firstHeading", kids |-> <<Txt(Ike), El("i", <<"a">>)>>] >>,
      << [id |-> "title", kids |-> <<Txt(Ike)>>] >>,
      << [id |-> "firstHeading", kids |-> <<Txt(IkeQuoted)>>] >> }

ImgPool ==
    { Img(s, a, t) : s \in {SrcIke, SrcLower, SrcUpper},
                     a \in {"image", "thumb"},
                     t \in {Block, Hidden, "noTab"} }

SeqsUpTo(S, n) == UNION { [1..k -> S] : k \in 0..n }

\* every image list of at most MaxImgs elements of the pool
PoolImgs == SeqsUpTo(ImgPool, MaxImgs)

\* galleries: the i-th image has a fresh source or repeats the first one,
\* and sits in a displayed or in a hidden tab
GalleryImgs ==
    UNION { { [i \in 1..k |-> Img(IF d[i] THEN SrcN(1) ELSE SrcN(i), "image",
                                  IF b[i] THEN Block ELSE Hidden)] :
              d \in [1..k -> BOOLEAN], b \in [1..k -> BOOLEAN] } :
            k \in 3..MaxGallery }

Row(header, blocks) == [th |-> header, td |-> blocks]
Li(kids) == [tag |-> "li", kids |-> kids]
P(kids) == [tag |-> "p", kids |-> kids]

HdrAppearances == <<Txt(LabelAppearance \o <<"s">>)>>
HdrTitles == <<Txt(LabelTitle \o <<"(","s",")">>)>>
HdrVoiced == <<Txt(LabelVoice \o <<"d">>)>>
NameDL == <<"D","L">>
NameAO == <<"A","O">>
TagEnglish == <<"(">> \o English \o <<")">>
TagJapanese == <<"(">> \o Japanese \o <<")">>

RowSets ==
    { <<>>,
      \* labelled rows whose cells hold nothing the extractors collect
      << Row(HdrAppearances, <<Li(<<Link(<<"F","E">>, None)>>)>>),
         Row(HdrTitles, <<Li(<<>>), Li(<<El("b", <<>>)>>)>>),
         Row(HdrVoiced, <<Li(<<Link(NameDL, None)>>), Li(<<El("small", TagEnglish)>>)>>) >>,
      \* a link with an empty title attribute, a paragraph title, one language
      << Row(HdrAppearances, <<Li(<<Link(<<"F","E">>, <<>>)>>)>>),
         Row(HdrTitles, <<P(<<Txt(<<"H","e","r","o">>)>>)>>),
         Row(HdrVoiced, <<Li(<<Link(NameDL, None), El("small", TagEnglish)>>)>>) >>,
      \* titled links, a title split over a text node and a link, both languages
      << Row(HdrAppearances, <<Li(<<Link(<<"F","E">>, <<"F","E","7">>)>>),
                               Li(<<Link(<<"H">>, None)>>),
                               Li(<<Link(<<"S">>, <<"S","S","B">>)>>)>>),
         Row(HdrTitles, <<Li(<<Txt(<<"P","r","i","n","c","e"," ","o","f"," ">>),
                               Link(<<"A","l","t","e","a">>, None)>>),
                          Li(<<>>),
                          P(<<Txt(<<"x">>)>>)>>),
         Row(HdrVoiced, <<Li(<<Link(NameAO, None), El("small", TagJapanese)>>),
                          Li(<<Link(NameDL, None), El("small", TagEnglish)>>)>>) >>,
      \* rows with other labels
      << Row(<<Txt(<<"G","e","n","d","e","r">>)>>,
             <<Li(<<Link(NameDL, <<"M">>), El("small", TagEnglish)>>)>>) >> }

Doc(h, i, r) == [h1s |-> h, imgs |-> i, rows |-> r]

HeadingIke == << [id |-> "firstHeading", kids |-> <<Txt(Ike)>>] >>

\* the page of the end-to-end example: heading "Ike", /a.png in the displayed
\* tab, /b.jpg and /c.jpg in hidden tabs
ExamplePage ==
    Doc(HeadingIke,
        << Img(SrcA, "image", Block), Img(SrcB, "image", Hidden), Img(SrcC, "image", Hidden) >>,
        <<>>)

\* the same page with sources that contain the name: /Ike/a.png, /Ike/b.jpg, /Ike/c.jpg
ExamplePageNamed ==
    Doc(HeadingIke,
        << Img(SrcIke \o SrcA, "image", Block), Img(SrcIke \o SrcB, "image", Hidden),
           Img(SrcIke \o SrcC, "image", Hidden) >>,
        <<>>)

ExampleImgs == {ExamplePage.imgs, ExamplePageNamed.imgs}

\* the links of an appearances cell: without a title attribute, with an
\* empty one, and with two different titles
AppearanceLinkPool ==
    { Link(<<"F","E">>, None), Link(<<"F","E">>, <<>>),
      Link(<<"H">>, <<"F","E","7">>), Link(<<"S">>, <<"S","S","B">>) }

\* a th whose label sits in a child element, and a th with another label
HdrNested(label) == <<El("b", label)>>
HdrOther == <<Txt(<<"G","e","n","d","e","r">>)>>

\* appearance rows: one li per link, at most MaxLinks links, under a header
\* that carries the label, carries it in a child element, or does not
AppearanceRows ==
    { << Row(h, [i \in 1..Len(links) |-> Li(<<links[i]>>)]) >> :
        h \in {HdrAppearances, HdrNested(LabelAppearance), HdrOther},
        links \in SeqsUpTo(AppearanceLinkPool, MaxLinks) }

TitlePrince == <<"P","r","i","n","c","e"," ","o","f"," ">>
TitleAltea == <<"A","l","t","e","a">>
TitleHero == <<"H","e","r","o">>
TitleKing == <<"K","i","n","g">>

\* the blocks of a titles cell: a title split over a text node and a link,
\* an li and a p without text, an li and a p with text
TitleBlockPool ==
    { Li(<<Txt(TitlePrince), Link(TitleAltea, None)>>), Li(<<>>), Li(<<Txt(TitleHero)>>),
      P(<<Txt(TitleKing)>>), P(<<El("b", <<>>)>>) }

\* title rows: at most MaxTitleBlocks blocks in the cell
TitleRows ==
    { << Row(HdrTitles, blocks) >> : blocks \in SeqsUpTo(TitleBlockPool, MaxTitleBlocks) }

\* the sibling nodes of a voice-actor cell: two anchors, the two language
\* annotations and the text between them
VoiceNodePool ==
    { Link(NameAO, None), Link(NameDL, None),
      El("small", TagJapanese), El("small", TagEnglish), Txt(<<",">>) }

\* voice rows: one li holding at most MaxVoiceNodes sibling nodes
VoiceRows ==
    { << Row(HdrVoiced, <<Li(kids)>>) >> : kids \in SeqsUpTo(VoiceNodePool, MaxVoiceNodes) }

\* the detail pages the model feeds to parse_character
DetailDocs ==
    { Doc(h, i, <<>>) : h \in Headings, i \in PoolImgs \cup GalleryImgs \cup ExampleImgs }
    \cup { Doc(HeadingIke, i, r) : i \in ExampleImgs \cup {<<>>}, r \in RowSets }
    \cup { Doc(HeadingIke, <<>>, r) : r \in AppearanceRows \cup TitleRows \cup VoiceRows }

(***************************************************************************)
(* The XPath queries of parse_character, as functions of the document.     *)
(***************************************************************************)
\* kids/text(): the text nodes among the child nodes, in document order
TextNodes(kids) ==
    Flatten([i \in 1..Len(kids) |-> IF kids[i].tag = "#text" THEN <<kids[i].text>> ELSE <<>>])

\* //h1/text(): the id of the heading is not looked at
HeadingTextNodesAnyId(doc) ==
    Flatten([i \in 1..Len(doc.h1s) |-> TextNodes(doc.h1s[i].kids)])

\* //h1[@id="firstHeading"]/text()
HeadingTextNodes(doc) ==
    Flatten([i \in 1..Len(doc.h1s) |->
                IF doc.h1s[i].id = "firstHeading" THEN TextNodes(doc.h1s[i].kids) ELSE <<>>])

\* the string value of an element: all its text, nested elements included
StringValue(kids) == Flatten([i \in 1..Len(kids) |-> kids[i].text])

\* the name is pasted between double quotes into the XPath expression: a name
\* holding a double quote ends the literal early and the expression is not XPath
XPathWellFormed(name) == "\"" \notin Range(name)

\* img[contains(@src, "<name>")]: the lower-cased name is not tried
SrcMatchesVerbatim(src, name) == Contains(src, name)

\* img[contains(@src, "<name>") or contains(@src, "<name.lower()>")]
SrcMatches(src, name) == Contains(src, name) \/ Contains(src, Lower(name))

\* //a[@class="image"]//img/@src: the source is not compared with the name
ImagePathAnySrc(doc, name) ==
    Flatten([i \in 1..Len(doc.imgs) |->
                IF doc.imgs[i].anchor = "image" THEN <<doc.imgs[i].src>> ELSE <<>>])

\* //a[@class="image"]//img[...]/@src
ImagePath(doc, name) ==
    Flatten([i \in 1..Len(doc.imgs) |->
                IF doc.imgs[i].anchor = "image" /\ SrcMatches(doc.imgs[i].src, name)
                THEN <<doc.imgs[i].src>> ELSE <<>>])

\* //div[@class="tab_content" and @style="display:block;"]//img[...]/@src :
\* the image need not sit in an a.image
DisplayedImagePathAnyAnchor(doc, name) ==
    Flatten([i \in 1..Len(doc.imgs) |->
                IF doc.imgs[i].tab = Block /\ SrcMatches(doc.imgs[i].src, name)
                THEN <<doc.imgs[i].src>> ELSE <<>>])

\* //div[@class="tab_content" and @style="display:block;"]//a[@class="image"]//img[...]/@src
DisplayedImagePath(doc, name) ==
    Flatten([i \in 1..Len(doc.imgs) |->
                IF /\ doc.imgs[i].tab = Block
                   /\ doc.imgs[i].anchor = "image"
                   /\ SrcMatches(doc.imgs[i].src, name)
                THEN <<doc.imgs[i].src>> ELSE <<>>])

\* contains(text(), label) on a th: text() is turned into a string by taking
\* its first node, the empty string when there is none
HeaderContains(th, label) ==
    LET texts == TextNodes(th)
    IN  Contains(IF texts = <<>> THEN <<>> ELSE Head(texts), label)

\* //tr[th[contains(text(), label)]]/td : the cells of the labelled rows
LabelledCells(doc, label) ==
    Flatten([i \in 1..Len(doc.rows) |->
                IF HeaderContains(doc.rows[i].th, label) THEN <<doc.rows[i].td>> ELSE <<>>])

\* every inline node of a cell with the given tag, in document order
InlineNodes(td, tg) ==
    Flatten([b \in 1..Len(td) |->
                Flatten([k \in 1..Len(td[b].kids) |->
                            IF td[b].kids[k].tag = tg THEN <<td[b].kids[k]>> ELSE <<>>])])

\* td//a yielding the title or, without one, the text of the link
AppearancesPathTextFallback(doc) ==
    LET cells == LabelledCells(doc, LabelAppearance)
        titlesOf(td) == LET links == InlineNodes(td, "a")
                        IN  [i \in 1..Len(links) |->
                                IF links[i].title # None THEN links[i].title ELSE links[i].text]
    IN  Flatten([c \in 1..Len(cells) |-> titlesOf(cells[c])])

\* //tr[th[contains(text(), "Appearance")]]/td//a/@title
AppearancesPath(doc) ==
    LET cells == LabelledCells(doc, LabelAppearance)
        titlesOf(td) == LET links == InlineNodes(td, "a")
                        IN  Flatten([i \in 1..Len(links) |->
                                        IF links[i].title # None THEN <<links[i].title>> ELSE <<>>])
    IN  Flatten([c \in 1..Len(cells) |-> titlesOf(cells[c])])

\* //tr[th[contains(text(), "Title")]]/td//li  and  .../td/p : the blocks
TitleBlocks(doc, tg) ==
    LET cells == LabelledCells(doc, LabelTitle)
    IN  Flatten([c \in 1..Len(cells) |->
                    Flatten([b \in 1..Len(cells[c]) |->
                                IF cells[c][b].tag = tg THEN <<cells[c][b]>> ELSE <<>>])])

\* the text of the block up to its first child element
GetTextFirstNode(block) ==
    IF block.kids # <<>> /\ Head(block.kids).tag = "#text" THEN Head(block.kids).text ELSE <<>>

\* BeautifulSoup(html, 'html.parser').get_text(): all text nodes, concatenated
GetText(block) == StringValue(block.kids)

\* //tr[th[contains(text(), "Voice")]]/td
\*     //a[following-sibling::small/text()[contains(., language)]]/text()
VoiceActorsPath(doc, language) ==
    LET cells == LabelledCells(doc, LabelVoice)
        inBlock(kids) ==
            Flatten([i \in 1..Len(kids) |->
                        IF /\ kids[i].tag = "a"
                           /\ \E j \in (i + 1)..Len(kids) :
                                 /\ kids[j].tag = "small"
                                 /\ Contains(kids[j].text, language)
                           /\ kids[i].text # <<>>
                        THEN <<kids[i].text>> ELSE <<>>])
    IN  Flatten([c \in 1..Len(cells) |->
                    Flatten([b \in 1..Len(cells[c]) |-> inBlock(cells[c][b].kids)])])

(***************************************************************************)
(* CharacterItem: a mapping from the fields that have been set to values.  *)
(***************************************************************************)
Fields == {"name", "primaryImage", "otherImages", "titles", "appearances", "voiceActors"}

\* CharacterItem(): no field set
EmptyItem == [f \in {} |-> <<>>]

\* item[f] = v
SetField(item, f, v) == [x \in DOMAIN item \cup {f} |-> IF x = f THEN v ELSE item[x]]

Has(item, f) == f \in DOMAIN item

(***************************************************************************)
(* __parse_images, line by line.                                           *)
(***************************************************************************)
\* image_links after line 100
ImageLinks(doc, name) == OrderedDictFromKeys(ImagePath(doc, name))

\* the first candidate is taken whether or not a displayed tab holds one
PrimaryImageLinkFirstCandidate(doc, name) ==
    IF ImageLinks(doc, name) # <<>> THEN ImageLinks(doc, name)[1] ELSE None

\* without a displayed-tab image the last candidate is taken
PrimaryImageLinkLastDefault(doc, name) ==
    LET primary_image_link == XPathGet(DisplayedImagePath(doc, name))
        image_links == ImageLinks(doc, name)
    IN  IF ~Truthy(primary_image_link) /\ image_links # <<>>
        THEN image_links[Len(image_links)]
        ELSE primary_image_link

\* without a displayed-tab image no primary image is chosen
PrimaryImageLinkNoDefault(doc, name) == XPathGet(DisplayedImagePath(doc, name))

\* primary_image_link after line 103
PrimaryImageLink(doc, name) ==
    LET primary_image_link == XPathGet(DisplayedImagePath(doc, name))
        image_links == ImageLinks(doc, name)
    IN  IF ~Truthy(primary_image_link) /\ image_links # <<>>
        THEN image_links[1]
        ELSE primary_image_link

\* image_links.remove(primary_image_link) raises ValueError when the link is not in the list
RemoveRaises(doc, name) ==
    /\ Truthy(PrimaryImageLink(doc, name))
    /\ PrimaryImageLink(doc, name) \notin Range(ImageLinks(doc, name))

\* image_links after line 105
OtherImageLinks(doc, name) ==
    IF Truthy(PrimaryImageLink(doc, name))
    THEN ListRemove(ImageLinks(doc, name), PrimaryImageLink(doc, name))
    ELSE ImageLinks(doc, name)

\* lines 107-111: the item with the image fields that were found
WithImages(doc, item) ==
    LET primary_image_link == PrimaryImageLink(doc, item["name"])
        image_links == OtherImageLinks(doc, item["name"])
        kept == Slice(image_links, MAX_NUM_OTHER_IMAGES)
        image_urls == [i \in 1..Len(kept) |-> BASE_URL \o kept[i]]
        item1 == IF Truthy(primary_image_link)
                 THEN SetField(item, "primaryImage", BASE_URL \o primary_image_link)
                 ELSE item
    IN  IF image_links # <<>> THEN SetField(item1, "otherImages", image_urls) ELSE item1

(***************************************************************************)
(* __parse_appearances, __parse_titles, __parse_voice_actors.              *)
(***************************************************************************)
WithAppearances(doc, item) ==
    LET appearances == AppearancesPath(doc)
    IN  IF appearances # <<>> THEN SetField(item, "appearances", appearances) ELSE item

\* the li blocks and the p blocks together
TitleHtmlsMixed(doc) == TitleBlocks(doc, "li") \o TitleBlocks(doc, "p")

\* the li blocks, or the p blocks when there is no li block
TitleHtmls(doc) ==
    IF TitleBlocks(doc, "li") # <<>> THEN TitleBlocks(doc, "li") ELSE TitleBlocks(doc, "p")

\* the titles field is set even when no title was found
WithTitlesAlways(doc, item) ==
    LET title_htmls == TitleHtmls(doc)
        titles == Flatten([i \in 1..Len(title_htmls) |->
                              IF GetText(title_htmls[i]) # <<>>
                              THEN <<GetText(title_htmls[i])>> ELSE <<>>])
    IN  SetField(item, "titles", titles)

WithTitles(doc, item) ==
    LET title_htmls == TitleHtmls(doc)
        titles == Flatten([i \in 1..Len(title_htmls) |->
                              IF GetText(title_htmls[i]) # <<>>
                              THEN <<GetText(title_htmls[i])>> ELSE <<>>])
    IN  IF titles # <<>> THEN SetField(item, "titles", titles) ELSE item

\* the two passes filed under each other's key
WithVoiceActorsSwapped(doc, item) ==
    LET english_voice_actors == VoiceActorsPath(doc, Japanese)
        japanese_voice_actors == VoiceActorsPath(doc, English)
        langs == (IF english_voice_actors # <<>> THEN {"english"} ELSE {})
                 \cup (IF japanese_voice_actors # <<>> THEN {"japanese"} ELSE {})
        voice_actors == [l \in langs |-> IF l = "english" THEN english_voice_actors
                                         ELSE japanese_voice_actors]
    IN  IF langs # {} THEN SetField(item, "voiceActors", voice_actors) ELSE item

WithVoiceActors(doc, item) ==
    LET english_voice_actors == VoiceActorsPath(doc, English)
        japanese_voice_actors == VoiceActorsPath(doc, Japanese)
        langs == (IF english_voice_actors # <<>> THEN {"english"} ELSE {})
                 \cup (IF japanese_voice_actors # <<>> THEN {"japanese"} ELSE {})
        voice_actors == [l \in langs |-> IF l = "english" THEN english_voice_actors
                                         ELSE japanese_voice_actors]
    IN  IF langs # {} THEN SetField(item, "voiceActors", voice_actors) ELSE item

(***************************************************************************)
(* parse_character as a state machine: pc is the next call it makes.       *)
(*   result = "pending" while it runs, "None" / "item" for what it         *)
(*   returned, "raised" when an exception left it.                         *)
(***************************************************************************)
\* no listing page is being parsed
ParseIdle ==
    /\ listing = <<>>
    /\ character_links = <<>>
    /\ next_page_link = None
    /\ gpc = "idle"
    /\ requests = <<>>

\* no pipeline has been built
MongoIdle ==
    /\ pipeline = [collection_name |-> "", database_name |-> "", uri |-> "",
                   client |-> 0, database |-> [client |-> 0, name |-> ""]]
    /\ phase = "idle"
    /\ clients = <<>>
    /\ objects = <<>>
    /\ inserted = <<>>
    /\ returned = <<>>

\* no crawl is running
CrawlIdle ==
    /\ site = <<>>
    /\ frontier = EmptyBag
    /\ visits = <<>>
    /\ detailed = {}
    /\ turn = 0

\* no concurrent invocation is running
FramesIdle == frames = <<>>

Init ==
    /\ response \in DetailDocs
    /\ character_item = EmptyItem
    /\ pc = "parse_name"
    /\ result = "pending"
    /\ called = <<>>
    /\ ParseIdle
    /\ MongoIdle
    /\ CrawlIdle
    /\ FramesIdle

\* lines 54-58 with `return character_item` in place of `return None`
parse_name_returns_item ==
    /\ pc = "parse_name"
    /\ called' = Append(called, "parse_name")
    /\ LET name == XPathGet(HeadingTextNodes(response))
       IN  IF Truthy(name)
           THEN /\ character_item' = SetField(character_item, "name", name)
                /\ pc' = "parse_images"
                /\ result' = result
           ELSE /\ character_item' = character_item
                /\ pc' = "done"
                /\ result' = "item"
    /\ UNCHANGED <<response, parseVars, mongoVars, crawlVars, frameVars>>

\* lines 54-58 and __parse_name
parse_name ==
    /\ pc = "parse_name"
    /\ called' = Append(called, "parse_name")
    /\ LET name == XPathGet(HeadingTextNodes(response))
       IN  IF Truthy(name)
           THEN /\ character_item' = SetField(character_item, "name", name)
                /\ pc' = "parse_images"
                /\ result' = result
           ELSE /\ character_item' = character_item
                /\ pc' = "done"
                /\ result' = "None"
    /\ UNCHANGED <<response, parseVars, mongoVars, crawlVars, frameVars>>

\* line 60 and __parse_images
parse_images ==
    /\ pc = "parse_images"
    /\ called' = Append(called, "parse_images")
    /\ IF ~XPathWellFormed(character_item["name"]) \/ RemoveRaises(response, character_item["name"])
       THEN /\ pc' = "done"
            /\ result' = "raised"
            /\ character_item' = character_item
       ELSE /\ pc' = "parse_appearances"
            /\ result' = result
            /\ character_item' = WithImages(response, character_item)
    /\ UNCHANGED <<response, parseVars, mongoVars, crawlVars, frameVars>>

\* line 61 and __parse_appearances
parse_appearances ==
    /\ pc = "parse_appearances"
    /\ called' = Append(called, "parse_appearances")
    /\ character_item' = WithAppearances(response, character_item)
    /\ pc' = "parse_titles"
    /\ UNCHANGED <<response, result, parseVars, mongoVars, crawlVars, frameVars>>

\* line 62 and __parse_titles
parse_titles ==
    /\ pc = "parse_titles"
    /\ called' = Append(called, "parse_titles")
    /\ character_item' = WithTitles(response, character_item)
    /\ pc' = "parse_voice_actors"
    /\ UNCHANGED <<response, result, parseVars, mongoVars, crawlVars, frameVars>>

\* lines 63-65 and __parse_voice_actors
parse_voice_actors ==
    /\ pc = "parse_voice_actors"
    /\ called' = Append(called, "parse_voice_actors")
    /\ character_item' = WithVoiceActors(response, character_item)
    /\ pc' = "done"
    /\ result' = "item"
    /\ UNCHANGED <<response, parseVars, mongoVars, crawlVars, frameVars>>

Next ==
    \/ parse_name
    \/ parse_images
    \/ parse_appearances
    \/ parse_titles
    \/ parse_voice_actors

Spec == Init /\ [][Next]_vars

\* parse_character returned a record
Returned == pc = "done" /\ result = "item"

TypeOK ==
    /\ response \in DetailDocs
    /\ DOMAIN character_item \subseteq Fields
    /\ pc \in {"parse_name", "parse_images", "parse_appearances", "parse_titles",
               "parse_voice_actors", "done"}
    /\ result \in {"pending", "None", "item", "raised"}

(***************************************************************************)
(* What the specification says about images, stated on the document alone. *)
(***************************************************************************)
NoDuplicates(s) == \A i, j \in 1..Len(s) : s[i] = s[j] => i = j

Min(S) == CHOOSE x \in S : \A y \in S : x <= y

RECURSIVE Ascending(_)
Ascending(S) == IF S = {} THEN <<>> ELSE <<Min(S)>> \o Ascending(S \ {Min(S)})

\* the image elements that are candidates for the subject `name`
CandidateIdx(doc, name) ==
    { i \in 1..Len(doc.imgs) :
        /\ doc.imgs[i].anchor = "image"
        /\ Contains(doc.imgs[i].src, name) \/ Contains(doc.imgs[i].src, Lower(name)) }

\* the candidates that lie in a displayed tab
DisplayedIdx(doc, name) == { i \in CandidateIdx(doc, name) : doc.imgs[i].tab = Block }

\* the first element of every distinct candidate source
FirstSeenIdx(doc, name) ==
    { i \in CandidateIdx(doc, name) :
        \A j \in CandidateIdx(doc, name) : j < i => doc.imgs[j].src # doc.imgs[i].src }

\* the URLs of the deduplicated candidates other than the source p, in document order
RemainingUrls(doc, name, p) ==
    LET idx == Ascending({ i \in FirstSeenIdx(doc, name) : doc.imgs[i].src # p })
    IN  [k \in 1..Len(idx) |-> BASE_URL \o doc.imgs[idx[k]].src]

Name == character_item["name"]
OtherImagesOrEmpty ==
    IF Has(character_item, "otherImages") THEN character_item["otherImages"] ELSE <<>>

\* the heading has no text node of its own with text in it
HeadingLacksText(doc) ==
    \A i \in 1..Len(doc.h1s) :
        doc.h1s[i].id = "firstHeading" =>
            \A k \in 1..Len(doc.h1s[i].kids) :
                doc.h1s[i].kids[k].tag = "#text" => doc.h1s[i].kids[k].text = <<>>

\* C1: a document without h1#firstHeading, or whose h1#firstHeading has no
\* non-empty text, makes parse_character return None, and a returned item
\* always has its 'name' field.
C1_NoNameNoRecord ==
    /\ (pc = "done" /\ HeadingLacksText(response)) => result = "None"
    /\ result = "item" => Has(character_item, "name")

\* C1 witness: a page that has an h1#firstHeading without text was parsed to None
C1_Witness ==
    /\ pc = "done" /\ result = "None"
    /\ \E i \in 1..Len(response.h1s) : response.h1s[i].id = "firstHeading"
    /\ HeadingLacksText(response)

\* the whole text of the first h1#firstHeading, nested elements included
HeadingText(doc) ==
    LET i == Min({ j \in 1..Len(doc.h1s) : doc.h1s[j].id = "firstHeading" })
    IN  StringValue(doc.h1s[i].kids)

HeadingHasText(doc) ==
    /\ \E j \in 1..Len(doc.h1s) : doc.h1s[j].id = "firstHeading"
    /\ HeadingText(doc) # <<>>

\* C2 (as claimed): whenever the primary heading has non-empty text,
\* parse_character returns a record whose 'name' is the whole heading text.
C2_NameIsHeadingText ==
    (pc = "done" /\ HeadingHasText(response)) =>
        /\ result = "item"
        /\ Has(character_item, "name")
        /\ Name = HeadingText(response)

\* C3: in a returned record otherImages does not hold the primaryImage,
\* holds no URL twice and has at most MAX_NUM_OTHER_IMAGES entries.
C3_OtherImagesBounded ==
    (Returned /\ Has(character_item, "otherImages")) =>
        /\ Has(character_item, "primaryImage") =>
               character_item["primaryImage"] \notin Range(character_item["otherImages"])
        /\ NoDuplicates(character_item["otherImages"])
        /\ Len(character_item["otherImages"]) <= MAX_NUM_OTHER_IMAGES

\* C3 witness: more distinct candidates than fit, some source repeated, list capped
C3_Witness ==
    /\ Returned
    /\ Has(character_item, "otherImages")
    /\ Len(character_item["otherImages"]) = MAX_NUM_OTHER_IMAGES
    /\ Cardinality(FirstSeenIdx(response, Name)) > MAX_NUM_OTHER_IMAGES + 1
    /\ Cardinality(CandidateIdx(response, Name)) > Cardinality(FirstSeenIdx(response, Name))

\* C4: with a candidate in a displayed tab, primaryImage is BASE_URL + the
\* source of the first such candidate and otherImages is the other
\* deduplicated candidates in document order, prefixed and cut to
\* MAX_NUM_OTHER_IMAGES (no otherImages field when none is left).
C4_DisplayedTabPreferred ==
    (Returned /\ DisplayedIdx(response, Name) # {}) =>
        LET p == response.imgs[Min(DisplayedIdx(response, Name))].src
        IN  /\ Has(character_item, "primaryImage")
            /\ character_item["primaryImage"] = BASE_URL \o p
            /\ OtherImagesOrEmpty =
                   Slice(RemainingUrls(response, Name, p), MAX_NUM_OTHER_IMAGES)

\* C4 witness: the displayed-tab candidate is not the first candidate of the page
C4_Witness ==
    /\ Returned
    /\ DisplayedIdx(response, Name) # {}
    /\ Min(DisplayedIdx(response, Name)) > Min(CandidateIdx(response, Name))
    /\ response.imgs[Min(DisplayedIdx(response, Name))].src
           # response.imgs[Min(CandidateIdx(response, Name))].src
    /\ Has(character_item, "otherImages")

\* C5 (as claimed): without a displayed-tab candidate the first candidate is
\* the primaryImage and all the remaining candidates are the otherImages; a
\* single candidate leaves otherImages absent.
C5_DefaultPrimaryAllRemaining ==
    (Returned /\ CandidateIdx(response, Name) # {} /\ DisplayedIdx(response, Name) = {}) =>
        LET p == response.imgs[Min(CandidateIdx(response, Name))].src
        IN  /\ Has(character_item, "primaryImage")
            /\ character_item["primaryImage"] = BASE_URL \o p
            /\ OtherImagesOrEmpty = RemainingUrls(response, Name, p)
            /\ Cardinality(FirstSeenIdx(response, Name)) = 1 => ~Has(character_item, "otherImages")

\* C5 (amended): without a displayed-tab candidate the first candidate is the
\* primaryImage and the remaining deduplicated candidates, cut to
\* MAX_NUM_OTHER_IMAGES, are the otherImages; a single candidate leaves
\* otherImages absent.
C5_DefaultPrimary ==
    (Returned /\ CandidateIdx(response, Name) # {} /\ DisplayedIdx(response, Name) = {}) =>
        LET p == response.imgs[Min(CandidateIdx(response, Name))].src
        IN  /\ Has(character_item, "primaryImage")
            /\ character_item["primaryImage"] = BASE_URL \o p
            /\ OtherImagesOrEmpty =
                   Slice(RemainingUrls(response, Name, p), MAX_NUM_OTHER_IMAGES)
            /\ Cardinality(FirstSeenIdx(response, Name)) = 1 => ~Has(character_item, "otherImages")

\* C5 witness: no displayed tab, more remaining candidates than the maximum
C5_Witness ==
    /\ Returned
    /\ DisplayedIdx(response, Name) = {}
    /\ Cardinality(FirstSeenIdx(response, Name)) > MAX_NUM_OTHER_IMAGES + 1
    /\ Has(character_item, "primaryImage")
    /\ Len(OtherImagesOrEmpty) = MAX_NUM_OTHER_IMAGES

\* C6: without candidates neither image field is set, and otherImages is
\* never set without primaryImage.
C6_ImagesTogether ==
    Returned =>
        /\ CandidateIdx(response, Name) = {} =>
               ~Has(character_item, "primaryImage") /\ ~Has(character_item, "otherImages")
        /\ Has(character_item, "otherImages") => Has(character_item, "primaryImage")

\* C6 witness: a page with image elements none of which is a candidate
C6_Witness ==
    /\ Returned
    /\ response.imgs # <<>>
    /\ CandidateIdx(response, Name) = {}
    /\ ~Has(character_item, "primaryImage")

\* the URLs a record holds in its image fields
RecordUrls ==
    (IF Has(character_item, "primaryImage") THEN {character_item["primaryImage"]} ELSE {})
    \cup Range(OtherImagesOrEmpty)

\* C7: candidates are deduplicated by source, first-seen order kept: the
\* record holds every candidate source at most once over primaryImage and
\* otherImages together, as many URLs as there are distinct sources (up to
\* the maximum), and otherImages follows the order of first occurrence.
C7_Deduplicated ==
    (Returned /\ CandidateIdx(response, Name) # {}) =>
        LET others == OtherImagesOrEmpty
            firstIdx(u) == Min({ i \in CandidateIdx(response, Name) :
                                   BASE_URL \o response.imgs[i].src = u })
            distinct == Cardinality(FirstSeenIdx(response, Name))
        IN  /\ Has(character_item, "primaryImage")
            /\ NoDuplicates(<<character_item["primaryImage"]>> \o others)
            /\ \A u \in RecordUrls :
                   \E i \in CandidateIdx(response, Name) : BASE_URL \o response.imgs[i].src = u
            /\ 1 + Len(others) = IF distinct <= MAX_NUM_OTHER_IMAGES + 1
                                 THEN distinct ELSE MAX_NUM_OTHER_IMAGES + 1
            /\ \A k, l \in 1..Len(others) : k < l => firstIdx(others[k]) < firstIdx(others[l])

\* C7 witness: the source chosen as primary occurs twice among the candidates
C7_Witness ==
    /\ Returned
    /\ Has(character_item, "primaryImage")
    /\ Has(character_item, "otherImages")
    /\ \E i, j \in CandidateIdx(response, Name) :
           /\ i # j
           /\ response.imgs[i].src = response.imgs[j].src
           /\ BASE_URL \o response.imgs[i].src = character_item["primaryImage"]

\* s contains sub when both are compared without regard to case
ContainsIgnoreCase(s, sub) == Contains(Lower(s), Lower(sub))

\* C8 (as claimed): the candidates are exactly the image elements whose
\* source contains the name, compared with or without regard to case,
\* whatever encloses them; the record's image URLs are theirs.
C8_CandidateAnyImage ==
    Returned =>
        LET claimed == { BASE_URL \o response.imgs[i].src :
                           i \in { j \in 1..Len(response.imgs) :
                                     ContainsIgnoreCase(response.imgs[j].src, Name) } }
        IN  /\ RecordUrls \subseteq claimed
            /\ Cardinality(claimed) <= MAX_NUM_OTHER_IMAGES + 1 => RecordUrls = claimed

\* C8 (amended): the candidates are exactly the image elements inside an
\* anchor of class "image" whose source contains the name as written or the
\* lower-cased name; the record's image URLs are theirs.
C8_CandidateInImageAnchor ==
    Returned =>
        LET candidates == { BASE_URL \o response.imgs[i].src : i \in CandidateIdx(response, Name) }
        IN  /\ RecordUrls \subseteq candidates
            /\ Cardinality(candidates) <= MAX_NUM_OTHER_IMAGES + 1 => RecordUrls = candidates

\* C8 witness: one image matches only through the lower-cased name, another
\* contains the name up to case (or outside an image anchor) and is left out
C8_Witness ==
    /\ Returned
    /\ \E i \in CandidateIdx(response, Name) :
           /\ ~Contains(response.imgs[i].src, Name)
           /\ BASE_URL \o response.imgs[i].src \in RecordUrls
    /\ \E i \in 1..Len(response.imgs) :
           /\ ContainsIgnoreCase(response.imgs[i].src, Name)
           /\ BASE_URL \o response.imgs[i].src \notin RecordUrls

\* C9 (as claimed): the example page gives the record with name, primaryImage
\* BASE_URL + /a.png and otherImages BASE_URL + /b.jpg, BASE_URL + /c.jpg.
C9_EndToEndAsGiven ==
    (Returned /\ response = ExamplePage) =>
        character_item = [name |-> Ike,
                          primaryImage |-> BASE_URL \o SrcA,
                          otherImages |-> <<BASE_URL \o SrcB, BASE_URL \o SrcC>>]

\* C9 (amended): the example page gives the record with the name alone, as
\* no source contains the name; with the sources /Ike/a.png, /Ike/b.jpg and
\* /Ike/c.jpg the record has the name, the first as primaryImage and the
\* other two as otherImages.
C9_EndToEnd ==
    /\ (Returned /\ response = ExamplePage) => character_item = [name |-> Ike]
    /\ (Returned /\ response = ExamplePageNamed) =>
           character_item = [name |-> Ike,
                             primaryImage |-> BASE_URL \o SrcIke \o SrcA,
                             otherImages |-> <<BASE_URL \o SrcIke \o SrcB,
                                               BASE_URL \o SrcIke \o SrcC>>]

\* C9 witness: the example page with named sources was parsed to a record
C9_Witness ==
    /\ Returned
    /\ response = ExamplePageNamed
    /\ Has(character_item, "otherImages")

\* C10: in a returned record every optional field that is present holds a
\* non-empty value, and every language of voiceActors has a non-empty list.
C10_NoEmptyField ==
    Returned =>
        /\ Has(character_item, "primaryImage") => character_item["primaryImage"] # <<>>
        /\ \A f \in {"otherImages", "titles", "appearances"} :
               Has(character_item, f) => Len(character_item[f]) > 0
        /\ Has(character_item, "voiceActors") =>
               /\ DOMAIN character_item["voiceActors"] # {}
               /\ \A l \in DOMAIN character_item["voiceActors"] :
                      Len(character_item["voiceActors"][l]) > 0

\* C10 witness: rows labelled for titles, appearances and voice actors hold
\* nothing to collect and the record has none of the three fields
C10_Witness ==
    /\ Returned
    /\ LabelledCells(response, LabelTitle) # <<>>
    /\ LabelledCells(response, LabelAppearance) # <<>>
    /\ LabelledCells(response, LabelVoice) # <<>>
    /\ DOMAIN character_item = {"name"}

(***************************************************************************)
(* What the specification says about the labelled rows, stated on the      *)
(* document alone.  The header text of a row is what text() gives the      *)
(* contains() test: the leading text node of the th.                       *)
(***************************************************************************)
HeaderText(th) ==
    LET idx == { k \in 1..Len(th) : th[k].tag = "#text" }
    IN  IF idx = {} THEN <<>> ELSE th[Min(idx)].text

\* the blocks (li and p) of the cells of the rows labelled `label`, in document order
RowBlocks(doc, label) ==
    Flatten([r \in 1..Len(doc.rows) |->
                IF Contains(HeaderText(doc.rows[r].th), label) THEN doc.rows[r].td ELSE <<>>])

RECURSIVE JoinText(_)
\* the text nodes of a block, nested ones included, joined left to right
JoinText(kids) == IF kids = <<>> THEN <<>> ELSE Head(kids).text \o JoinText(Tail(kids))

FieldOrEmpty(f) == IF Has(character_item, f) THEN character_item[f] ELSE <<>>

\* the title attributes of the links of the appearance rows, in document order
LinkTitles(doc) ==
    LET blocks == RowBlocks(doc, LabelAppearance)
        ofBlock(kids) == Flatten([k \in 1..Len(kids) |->
                            IF kids[k].tag = "a" /\ kids[k].title # None
                            THEN <<kids[k].title>> ELSE <<>>])
    IN  Flatten([b \in 1..Len(blocks) |-> ofBlock(blocks[b].kids)])

C12_TitleConcatenated ==
    Returned =>
        LET blocks == RowBlocks(response, LabelTitle)
            titles == FieldOrEmpty("titles")
        IN  /\ \A b \in 1..Len(blocks) :
                   (blocks[b].tag = "li" /\ JoinText(blocks[b].kids) # <<>>) =>
                       JoinText(blocks[b].kids) \in Range(titles)
            /\ \A k \in 1..Len(titles) :
                   \E b \in 1..Len(blocks) : titles[k] = JoinText(blocks[b].kids)
            /\ Len(titles) <= Len(blocks)

\* C12 witness: "Prince of " + "Altea" was scraped as the one title "Prince of Altea"
C12_Witness ==
    /\ Returned
    /\ Has(character_item, "titles")
    /\ character_item["titles"] = << TitlePrince \o TitleAltea >>

\* the non-empty texts of the blocks with the given tag in the title rows, in document order
BlockTexts(doc, tg) ==
    LET blocks == RowBlocks(doc, LabelTitle)
    IN  Flatten([b \in 1..Len(blocks) |->
                    IF blocks[b].tag = tg /\ JoinText(blocks[b].kids) # <<>>
                    THEN <<JoinText(blocks[b].kids)>> ELSE <<>>])

HasBlock(doc, tg) ==
    \E b \in 1..Len(RowBlocks(doc, LabelTitle)) : RowBlocks(doc, LabelTitle)[b].tag = tg

\* C13: titles is built from the list items of the row labelled "Title" when
\* there is a list item, from its paragraphs otherwise, never from both, in
\* document order and without the items whose text is empty.
C13_TitlesFromListOrParagraphs ==
    Returned =>
        /\ FieldOrEmpty("titles") =
               IF HasBlock(response, "li") THEN BlockTexts(response, "li")
               ELSE BlockTexts(response, "p")
        /\ Has(character_item, "titles") <=> FieldOrEmpty("titles") # <<>>

\* C13 witness: the cell has list items, all without text, and a paragraph
\* with text; no title was taken from the paragraph
C13_Witness ==
    /\ Returned
    /\ HasBlock(response, "li")
    /\ BlockTexts(response, "li") = <<>>
    /\ BlockTexts(response, "p") # <<>>
    /\ ~Has(character_item, "titles")

LanguageTag(key) == IF key = "english" THEN English ELSE Japanese

\* the texts of the anchors of the voice rows that have, among their later
\* siblings, an annotation containing the tag; in document order
FollowedAnchors(doc, tagText) ==
    LET blocks == RowBlocks(doc, LabelVoice)
        ofBlock(kids) == Flatten([i \in 1..Len(kids) |->
                            IF /\ kids[i].tag = "a" /\ kids[i].text # <<>>
                               /\ \E j \in 1..Len(kids) :
                                      j > i /\ kids[j].tag = "small" /\ Contains(kids[j].text, tagText)
                            THEN <<kids[i].text>> ELSE <<>>])
    IN  Flatten([b \in 1..Len(blocks) |-> ofBlock(blocks[b].kids)])

VoiceActorsOf(key) ==
    IF Has(character_item, "voiceActors") /\ key \in DOMAIN character_item["voiceActors"]
    THEN character_item["voiceActors"][key] ELSE <<>>

\* C14: in the row labelled "Voice" the anchors followed by an annotation
\* containing "Japanese" are under 'japanese' and those followed by one
\* containing "English" under 'english', each list in document order; a
\* language without match has no key and without any match the field is absent.
C14_VoiceActorsByLanguage ==
    Returned =>
        /\ \A key \in {"english", "japanese"} :
               /\ VoiceActorsOf(key) = FollowedAnchors(response, LanguageTag(key))
               /\ (Has(character_item, "voiceActors") /\ key \in DOMAIN character_item["voiceActors"])
                      <=> FollowedAnchors(response, LanguageTag(key)) # <<>>
        /\ Has(character_item, "voiceActors") <=>
               \E key \in {"english", "japanese"} : FollowedAnchors(response, LanguageTag(key)) # <<>>
        /\ Has(character_item, "voiceActors") =>
               DOMAIN character_item["voiceActors"] \subseteq {"english", "japanese"}

\* C14 witness: both languages are present, with different lists
C14_Witness ==
    /\ Returned
    /\ Has(character_item, "voiceActors")
    /\ DOMAIN character_item["voiceActors"] = {"english", "japanese"}
    /\ character_item["voiceActors"]["english"] # character_item["voiceActors"]["japanese"]

\* the sibling element that directly follows node i (text nodes are skipped)
NextElementIs(kids, i, tg, tagText) ==
    \E j \in 1..Len(kids) :
        /\ j > i
        /\ kids[j].tag # "#text"
        /\ \A m \in (i + 1)..(j - 1) : kids[m].tag = "#text"
        /\ kids[j].tag = tg
        /\ Contains(kids[j].text, tagText)

\* C15 (as claimed): every name filed under a language is the text of an
\* anchor whose directly following sibling element is an annotation with
\* that language's tag, never only that of a later sibling.
C15_ImmediateAnnotationOnly ==
    Returned =>
        \A key \in {"english", "japanese"} :
            \A n \in 1..Len(VoiceActorsOf(key)) :
                \E b \in 1..Len(RowBlocks(response, LabelVoice)) :
                    LET kids == RowBlocks(response, LabelVoice)[b].kids
                    IN  \E i \in 1..Len(kids) :
                            /\ kids[i].tag = "a"
                            /\ kids[i].text = VoiceActorsOf(key)[n]
                            /\ NextElementIs(kids, i, "small", LanguageTag(key))

(***************************************************************************)
(* Listing pages and parse.                                                *)
(* A listing page is the sequence of its anchors in document order; an     *)
(* anchor has its href (None without the attribute), its leading text node *)
(* (<<>> without one) and its place: "group" inside a list item of a       *)
(* div.mw-category-group of div#mw-pages, "pages" elsewhere inside         *)
(* div#mw-pages, "outside" anywhere else.                                  *)
(***************************************************************************)
Anchor(h, t, pl) == [href |-> h, text |-> t, place |-> pl]

TextNext == <<"n","e","x","t">>
TextNextPage == TextNext \o <<" ","p","a","g","e">>
TextPreviousPage == <<"p","r","e","v","i","o","u","s"," ","p","a","g","e">>
HrefA == <<"/","A">>
HrefB == <<"/","B">>
HrefP2 == <<"/","p","2">>
HrefP3 == <<"/","p","3">>
HrefP0 == <<"/","p","0">>

AnchorPool ==
    { Anchor(HrefA, <<"A","b","e","l">>, "group"),
      \* a subject whose name holds the letters "next"
      Anchor(HrefB, <<"A">> \o TextNext, "group"),
      Anchor(None, <<"C">>, "group"),
      Anchor(HrefP2, TextNextPage, "pages"),
      Anchor(HrefP3, TextNextPage, "pages"),
      Anchor(None, TextNextPage, "pages"),
      Anchor(HrefP0, TextPreviousPage, "pages"),
      Anchor(HrefP2, TextNextPage, "outside") }

\* the listing pages the model feeds to parse
ListingDocs == SeqsUpTo(AnchorPool, MaxAnchors)

\* a[...]/@href : the href attributes of the anchors at the positions `matched`,
\* in document order
Hrefs(doc, matched) ==
    Flatten([i \in 1..Len(doc) |->
                IF i \in matched /\ doc[i].href # None THEN <<doc[i].href>> ELSE <<>>])

\* //div[@id="mw-pages"]//a/@href : the category group is not looked at
CharacterLinksPathAllPages(doc) ==
    Hrefs(doc, { i \in 1..Len(doc) : doc[i].place \in {"group", "pages"} })

\* //div[@id="mw-pages"]//div[@class="mw-category-group"]//li//a/@href
CharacterLinksPath(doc) ==
    Hrefs(doc, { i \in 1..Len(doc) : doc[i].place = "group" })

\* //a[contains(text(), "next")]/@href : anchors outside div#mw-pages count too
NextPagePathAnywhere(doc) ==
    Hrefs(doc, { i \in 1..Len(doc) : Contains(doc[i].text, TextNext) })

\* //div[@id="mw-pages"]//a[contains(text(), "next")]/@href
NextPagePath(doc) ==
    Hrefs(doc, { i \in 1..Len(doc) :
                    doc[i].place \in {"group", "pages"} /\ Contains(doc[i].text, TextNext) })

\* scrapy.Request(url, callback=...)
Request(url, callback) == [url |-> url, callback |-> callback]

\* the request yielded for a character link (lines 37-38)
CharacterRequest(character_link) == Request(BASE_URL \o character_link, "parse_character")

\* the request yielded for the next page (lines 41-42)
NextPageRequest(link) == Request(BASE_URL \o link, "parse")

\* no detail page is being parsed
CharacterIdle ==
    /\ response = Doc(<<>>, <<>>, <<>>)
    /\ character_item = EmptyItem
    /\ pc = "idle"
    /\ result = "pending"
    /\ called = <<>>

InitParse ==
    /\ listing \in ListingDocs
    /\ character_links = <<>>
    /\ next_page_link = None
    /\ gpc = "start"
    /\ requests = <<>>
    /\ CharacterIdle
    /\ MongoIdle
    /\ CrawlIdle
    /\ FramesIdle

\* lines 33-34: the generator starts and evaluates the two XPath queries
parse_begin ==
    /\ gpc = "start"
    /\ character_links' = CharacterLinksPath(listing)
    /\ next_page_link' = XPathGet(NextPagePath(listing))
    /\ gpc' = "for"
    /\ UNCHANGED <<listing, requests, characterVars, mongoVars, crawlVars, frameVars>>

\* lines 36-38: one turn of the loop yields the request of the next character link
parse_yield_character ==
    /\ gpc = "for"
    /\ Len(requests) < Len(character_links)
    /\ requests' = Append(requests, CharacterRequest(character_links[Len(requests) + 1]))
    /\ UNCHANGED <<listing, character_links, next_page_link, gpc, characterVars, mongoVars, crawlVars, frameVars>>

\* lines 40-42 moved in front of the loop
parse_yield_next_before_loop ==
    /\ gpc = "for"
    /\ requests = <<>>
    /\ Truthy(next_page_link)
    /\ requests' = Append(requests, NextPageRequest(next_page_link))
    /\ UNCHANGED <<listing, character_links, next_page_link, gpc, characterVars, mongoVars, crawlVars, frameVars>>

\* lines 40-42: after the loop, the request of the next page is yielded
parse_yield_next ==
    /\ gpc = "for"
    /\ Len(requests) = Len(character_links)
    /\ Truthy(next_page_link)
    /\ requests' = Append(requests, NextPageRequest(next_page_link))
    /\ gpc' = "done"
    /\ UNCHANGED <<listing, character_links, next_page_link, characterVars, mongoVars, crawlVars, frameVars>>

\* line 40: without a next-page link the generator ends
parse_end ==
    /\ gpc = "for"
    /\ Len(requests) = Len(character_links)
    /\ ~Truthy(next_page_link)
    /\ gpc' = "done"
    /\ UNCHANGED <<listing, character_links, next_page_link, requests, characterVars, mongoVars, crawlVars, frameVars>>

NextParse ==
    \/ parse_begin
    \/ parse_yield_character
    \/ parse_yield_next
    \/ parse_end

SpecParse == InitParse /\ [][NextParse]_vars

\* the generator is exhausted
Exhausted == gpc = "done"

TypeOKParse ==
    /\ listing \in ListingDocs
    /\ gpc \in {"start", "for", "done"}
    /\ Len(requests) <= Len(character_links) + 1
    /\ \A i \in 1..Len(requests) : requests[i].callback \in {"parse_character", "parse"}
    /\ pc = "idle"
    /\ phase = "idle"

(***************************************************************************)
(* What the specification says about link discovery, stated on the page.   *)
(***************************************************************************)
\* the anchors of the category listing that carry an href
DetailAnchorIdx(doc) == { i \in 1..Len(doc) : doc[i].place = "group" /\ doc[i].href # None }

\* the anchors inside div#mw-pages with an href whose text contains "next"
NextAnchorIdx(doc) ==
    { i \in 1..Len(doc) :
        doc[i].place # "outside" /\ doc[i].href # None /\ Contains(doc[i].text, TextNext) }

\* the requests yielded with the given callback, in the order they were yielded
RequestsTo(callback) ==
    LET hasCallback(r) == r.callback = callback
    IN  SelectSeq(requests, hasCallback)

\* C16: parse yields one detail request per anchor href of the category
\* listing, in document order, each to BASE_URL + href with callback
\* parse_character.
C16_DetailRequests ==
    Exhausted =>
        LET idx == Ascending(DetailAnchorIdx(listing))
        IN  RequestsTo("parse_character") =
                [k \in 1..Len(idx) |->
                    [url |-> BASE_URL \o listing[idx[k]].href, callback |-> "parse_character"]]

\* C16 witness: a page with two detail anchors gave two detail requests, in order
C16_Witness ==
    /\ Exhausted
    /\ Cardinality(DetailAnchorIdx(listing)) = 2
    /\ Len(RequestsTo("parse_character")) = 2
    /\ RequestsTo("parse_character")[1].url # RequestsTo("parse_character")[2].url
    /\ \E i \in 1..Len(listing) : i \notin DetailAnchorIdx(listing)

\* C17: parse yields at most one continuation request: exactly one, to
\* BASE_URL + the href of the (first) next anchor with callback parse, when
\* div#mw-pages holds an anchor whose text contains "next", whatever the
\* number of detail links and of such anchors, and none otherwise.
C17_AtMostOneContinuation ==
    Exhausted =>
        /\ Len(RequestsTo("parse")) <= 1
        /\ NextAnchorIdx(listing) # {} =>
               RequestsTo("parse") =
                   << [url |-> BASE_URL \o listing[Min(NextAnchorIdx(listing))].href,
                       callback |-> "parse"] >>
        /\ NextAnchorIdx(listing) = {} => RequestsTo("parse") = <<>>

\* C17 witness: two next anchors with different hrefs, no detail link, one request
C17_Witness ==
    /\ Exhausted
    /\ DetailAnchorIdx(listing) = {}
    /\ \E i, j \in NextAnchorIdx(listing) : listing[i].href # listing[j].href
    /\ Len(requests) = 1

\* C18 (as claimed): every request with callback parse goes to the href of an
\* anchor of the pagination container, never to that of an anchor of the
\* category listing.
C18_NextOnlyFromPagination ==
    Exhausted =>
        \A k \in 1..Len(requests) :
            requests[k].callback = "parse" =>
                \E i \in 1..Len(listing) :
                    /\ listing[i].place = "pages"
                    /\ listing[i].href # None
                    /\ Contains(listing[i].text, TextNext)
                    /\ requests[k].url = BASE_URL \o listing[i].href

(***************************************************************************)
(* MongoPipeline.  Python objects live in `objects`, a heap of cells that   *)
(* are referred to by their index, so that "the same object" and "an equal  *)
(* object" are different things.  `clients` holds the MongoClient objects,  *)
(* `inserted` the insert_one calls in order with what was stored, and       *)
(* `returned` one entry per process_item call.                              *)
(***************************************************************************)
CollectionNames == {"characters", "collection"}
DatabaseNames == {"fireEmblemData", "database"}
Uris == {"mongodb://localhost:27017", "/uri"}

\* items a spider hands to the pipeline
ItemIke == SetField(EmptyItem, "name", Ike)
ItemIkeImage == SetField(ItemIke, "primaryImage", SrcIke)
ItemMarth == SetField(SetField(EmptyItem, "name", <<"M">>), "titles", <<TitlePrince>>)
ItemPool == {ItemIke, ItemIkeImage, ItemMarth}

\* MongoPipeline(collection_name, database_name, uri): client and database are not set yet
MongoPipeline(collection_name, database_name, uri) ==
    [collection_name |-> collection_name, database_name |-> database_name, uri |-> uri,
     client |-> 0, database |-> [client |-> 0, name |-> ""]]

\* MongoClient(uri)
MongoClient(uri) == [uri |-> uri, open |-> TRUE, closes |-> 0]

\* client[name]
GetDatabase(client, name) == [client |-> client, name |-> name]

\* database[name]
GetCollection(database, name) == [database |-> database, name |-> name]

\* self.database = self.client[self.collection_name]
ConnectCollectionAsDatabase(p, client) ==
    [p EXCEPT !.client = client, !.database = GetDatabase(client, p.collection_name)]

\* self.client = client; self.database = self.client[self.database_name]
Connect(p, client) ==
    [p EXCEPT !.client = client, !.database = GetDatabase(client, p.database_name)]

\* close_spider without self.client.close()
CloseNothing(client) == client

\* client.close()
Close(client) == [client EXCEPT !.open = FALSE, !.closes = @ + 1]

\* a CharacterItem object
ItemCell(item) == [kind |-> "item", fields |-> item, _id |-> 0]

\* dict(item): a new dict holding the fields that are set
Dict(cell) == [kind |-> "dict", fields |-> [f \in DOMAIN cell.fields |-> cell.fields[f]], _id |-> 0]

\* insert_one(document) stores the document and writes the new _id into the
\* dict it was handed
InsertOne(heap, collection, ref, id) ==
    [objects |-> [heap EXCEPT ![ref]._id = id],
     insert |-> [collection |-> collection, document |-> ref,
                 stored |-> [fields |-> heap[ref].fields, _id |-> id]]]

\* return dict(item)
ReturnValueDocument(item, document) == document

\* return item
ReturnValue(item, document) == item

InitMongo ==
    /\ pipeline \in { MongoPipeline(c, d, u) : c \in CollectionNames, d \in DatabaseNames, u \in Uris }
    /\ phase = "created"
    /\ clients = <<>>
    /\ objects = <<>>
    /\ inserted = <<>>
    /\ returned = <<>>
    /\ CharacterIdle
    /\ ParseIdle
    /\ CrawlIdle
    /\ FramesIdle

open_spider ==
    /\ phase = "created"
    /\ clients' = Append(clients, MongoClient(pipeline.uri))
    /\ pipeline' = Connect(pipeline, Len(clients) + 1)
    /\ phase' = "opened"
    /\ UNCHANGED <<objects, inserted, returned, characterVars, parseVars, crawlVars, frameVars>>

\* update_one(dict(item), ..., upsert=True): an equal document is not stored again
ProcessItemUpsert(heap, item) ==
    LET document == Len(heap) + 1
        done == InsertOne(Append(heap, Dict(heap[item])),
                          GetCollection(pipeline.database, pipeline.collection_name),
                          document, Len(inserted) + 1)
        known == \E k \in 1..Len(inserted) : inserted[k].stored.fields = heap[item].fields
    IN  /\ objects' = IF known THEN Append(heap, Dict(heap[item])) ELSE done.objects
        /\ inserted' = IF known THEN inserted ELSE Append(inserted, done.insert)
        /\ returned' = Append(returned, [item |-> item, result |-> ReturnValue(item, document)])

\* insert_one(item): the item itself is handed to the storage layer
ProcessItemNoCopy(heap, item) ==
    LET done == InsertOne(heap, GetCollection(pipeline.database, pipeline.collection_name),
                          item, Len(inserted) + 1)
    IN  /\ objects' = done.objects
        /\ inserted' = Append(inserted, done.insert)
        /\ returned' = Append(returned, [item |-> item, result |-> ReturnValue(item, item)])

\* process_item(item, spider) on the heap `heap` that holds the item at `item`
ProcessItem(heap, item) ==
    LET document == Len(heap) + 1
        done == InsertOne(Append(heap, Dict(heap[item])),
                          GetCollection(pipeline.database, pipeline.collection_name),
                          document, Len(inserted) + 1)
    IN  /\ objects' = done.objects
        /\ inserted' = Append(inserted, done.insert)
        /\ returned' = Append(returned, [item |-> item, result |-> ReturnValue(item, document)])

\* the item is one the caller has just built, or one it has passed before
process_item ==
    /\ phase = "opened"
    /\ Len(returned) < MaxItems
    /\ \/ \E it \in ItemPool : ProcessItem(Append(objects, ItemCell(it)), Len(objects) + 1)
       \/ \E ref \in 1..Len(objects) : objects[ref].kind = "item" /\ ProcessItem(objects, ref)
    /\ UNCHANGED <<pipeline, phase, clients, characterVars, parseVars, crawlVars, frameVars>>

close_spider ==
    /\ phase = "opened"
    /\ clients' = [clients EXCEPT ![pipeline.client] = Close(@)]
    /\ phase' = "closed"
    /\ UNCHANGED <<pipeline, objects, inserted, returned, characterVars, parseVars, crawlVars, frameVars>>

NextMongo ==
    \/ open_spider
    \/ process_item
    \/ close_spider

SpecMongo == InitMongo /\ [][NextMongo]_vars

TypeOKMongo ==
    /\ pipeline.collection_name \in CollectionNames
    /\ pipeline.database_name \in DatabaseNames
    /\ pipeline.uri \in Uris
    /\ phase \in {"created", "opened", "closed"}
    /\ pipeline.client \in 0..Len(clients)
    /\ Len(returned) <= MaxItems
    /\ Len(objects) <= 2 * MaxItems
    /\ \A i \in 1..Len(objects) : objects[i].kind \in {"item", "dict"}
    /\ \A k \in 1..Len(inserted) : inserted[k].document \in 1..Len(objects)
    /\ pc = "idle"
    /\ gpc = "idle"

(***************************************************************************)
(* What the specification says about the pipeline.                         *)
(***************************************************************************)
\* C19: after open_spider, every process_item call made one insert_one, of a
\* dict holding the item's fields, into the collection collection_name of the
\* opened database, and returned the very object it was given.
C19_InsertAndReturn ==
    /\ Len(inserted) = Len(returned)
    /\ \A k \in 1..Len(returned) :
        /\ returned[k].result = returned[k].item
        /\ objects[returned[k].item].kind = "item"
        /\ objects[inserted[k].document].kind = "dict"
        /\ inserted[k].stored.fields = objects[returned[k].item].fields
        /\ inserted[k].collection.name = pipeline.collection_name
        /\ inserted[k].collection.database = pipeline.database
        /\ inserted[k].collection.database.name = pipeline.database_name
        /\ inserted[k].collection.database.client \in 1..Len(clients)

\* C19 witness: two calls with different items, one of them with two fields
C19_Witness ==
    /\ phase = "opened"
    /\ Len(returned) = 2
    /\ returned[1].item # returned[2].item
    /\ inserted[1].stored.fields # inserted[2].stored.fields
    /\ \E k \in 1..2 : Cardinality(DOMAIN inserted[k].stored.fields) = 2

\* C20: open_spider creates exactly one client, built with the configured uri,
\* and from then on the pipeline's database is that client's database named
\* database_name; before open_spider there is no client.
C20_OneClientAndDatabase ==
    /\ phase = "created" => clients = <<>>
    /\ phase \in {"opened", "closed"} =>
        /\ Len(clients) = 1
        /\ clients[1].uri = pipeline.uri
        /\ pipeline.client = 1
        /\ pipeline.database = [client |-> 1, name |-> pipeline.database_name]

\* C20 witness: the spider was opened with a database name that is neither the
\* default nor the collection name
C20_Witness ==
    /\ phase = "opened"
    /\ Len(clients) = 1
    /\ clients[1].open
    /\ pipeline.uri = "/uri"
    /\ pipeline.database_name = "database"
    /\ pipeline.database.name = "database"

\* C21: close_spider closes, exactly once, the client that open_spider
\* created, and after it no connection is open; until then that client is
\* open and has never been closed.
C21_ClosedExactlyOnce ==
    /\ phase = "opened" => clients[pipeline.client].open /\ clients[pipeline.client].closes = 0
    /\ phase = "closed" =>
        /\ clients[pipeline.client].closes = 1
        /\ clients[pipeline.client].uri = pipeline.uri
        /\ \A c \in 1..Len(clients) : ~clients[c].open

\* C21 witness: a run open_spider, process_item, process_item, close_spider
C21_Witness ==
    /\ phase = "closed"
    /\ Len(returned) = 2
    /\ Len(clients) = 1
    /\ clients[1].closes = 1

\* C22: the number of inserts equals the number of process_item calls, and
\* every call stores a document of its own, also when the item equals one
\* that was processed before: no upsert, merge or deduplication.
C22_InsertAsNewDocument ==
    /\ Len(inserted) = Len(returned)
    /\ \A j, k \in 1..Len(inserted) :
        j # k => /\ inserted[j].stored._id # inserted[k].stored._id
                 /\ inserted[j].document # inserted[k].document
    /\ \A k \in 1..Len(inserted) : inserted[k].stored._id = k

\* C22 witness: two different item objects with equal fields gave two documents
C22_Witness ==
    /\ Len(returned) = 2
    /\ returned[1].item # returned[2].item
    /\ objects[returned[1].item].fields = objects[returned[2].item].fields
    /\ Len(inserted) = 2
    /\ inserted[1].stored.fields = inserted[2].stored.fields

\* C29: process_item leaves the item unchanged: the document handed to
\* insert_one is another object than the item, the identifier the storage
\* layer adds lands in that document, and the item returned still holds
\* exactly the fields it was given and no identifier.
C29_ItemUnchanged ==
    \A k \in 1..Len(returned) :
        /\ inserted[k].document # returned[k].item
        /\ objects[inserted[k].document]._id = inserted[k].stored._id
        /\ objects[inserted[k].document]._id # 0
        /\ objects[returned[k].result]._id = 0
        /\ objects[returned[k].result].fields \in ItemPool
        /\ objects[returned[k].result].fields = inserted[k].stored.fields

\* C29 witness: the same item object was processed twice and is still without identifier
C29_Witness ==
    /\ Len(returned) = 2
    /\ returned[1].item = returned[2].item
    /\ objects[returned[1].item]._id = 0
    /\ objects[inserted[1].document]._id = 1
    /\ objects[inserted[2].document]._id = 2

(***************************************************************************)
(* What the specification says about the control flow of parse_character   *)
(* and of parse.                                                            *)
(***************************************************************************)
\* C23: the name is extracted first, and when that fails parse_character
\* returns None at once: no other extractor has been invoked and no item,
\* not even a partly filled one, is returned.
C23_NoNameStopsAtOnce ==
    /\ called # <<>> => called[1] = "parse_name"
    /\ result = "None" =>
        /\ pc = "done"
        /\ called = <<"parse_name">>
        /\ character_item = EmptyItem
    /\ (pc # "parse_name" /\ HeadingLacksText(response)) =>
        /\ pc = "done"
        /\ result = "None"
        /\ called = <<"parse_name">>

\* C23 witness: a page with images and rows to extract, but no name, gave None
C23_Witness ==
    /\ pc = "done" /\ result = "None"
    /\ response.imgs # <<>>
    /\ \E i \in 1..Len(response.imgs) : response.imgs[i].anchor = "image"
    /\ called = <<"parse_name">>

\* C24 (as claimed): once the name has been extracted, parse_character ends
\* with a record, whatever characters the name holds: no extractor raises.
C24_AlwaysRecord ==
    /\ result # "raised"
    /\ (pc = "done" /\ Has(character_item, "name")) => result = "item"

\* C28: when __parse_images chooses a primary image source, from a displayed
\* tab or by default, that source is in the deduplicated candidate list when
\* it is removed, the removal takes out exactly one element, and the
\* extractor never ends in the ValueError of list.remove.
C28_RemovalNeverFails ==
    /\ (Has(character_item, "name") /\ XPathWellFormed(Name)) =>
        LET image_links == ImageLinks(response, Name)
            primary_image_link == PrimaryImageLink(response, Name)
        IN  /\ ~RemoveRaises(response, Name)
            /\ Truthy(primary_image_link) =>
                /\ primary_image_link \in Range(image_links)
                /\ Len(ListRemove(image_links, primary_image_link)) = Len(image_links) - 1
                /\ primary_image_link \notin Range(ListRemove(image_links, primary_image_link))
    /\ result = "raised" => ~XPathWellFormed(Name)

\* C28 witness: a primary image chosen by default, and one chosen from a
\* displayed tab that is not the first candidate, were removed from a list
\* of several candidates
C28_Witness ==
    /\ Returned
    /\ Has(character_item, "primaryImage")
    /\ Has(character_item, "otherImages")
    /\ DisplayedImagePath(response, Name) # <<>>
    /\ PrimaryImageLink(response, Name) # ImageLinks(response, Name)[1]
    /\ Len(ImagePath(response, Name)) > Len(ImageLinks(response, Name))

\* C30: in the requests yielded by one parse call every detail request comes
\* before the continuation request: a request with callback parse is the
\* last one, and nothing is yielded after it.
C30_ContinuationLast ==
    \A k \in 1..Len(requests) :
        requests[k].callback = "parse" => (k = Len(requests) /\ gpc = "done")

\* C30 witness: the next anchor stands before a detail anchor in the page,
\* and its request still came last
C30_Witness ==
    /\ Exhausted
    /\ Len(requests) >= 2
    /\ requests[Len(requests)].callback = "parse"
    /\ \E i, j \in 1..Len(listing) :
        /\ i < j
        /\ listing[i].place = "pages" /\ Contains(listing[i].text, TextNext)
        /\ listing[j].place = "group" /\ listing[j].href # None

(***************************************************************************)
(* A crawl driven by parse.  The site is a sequence of listing pages; page  *)
(* i is served at BASE_URL + PageHref(i) and page 1 at the start URL.  The  *)
(* scheduler holds the requests yielded so far as a bag and fetches them   *)
(* in any order, every one of them, without looking at the URLs it has     *)
(* visited.                                                                 *)
(***************************************************************************)
PageHref(i) == <<"/","p", Digit(i)>>
DetailHref(i, k) == <<"/","c", Digit(i), Digit(k)>>

\* listing page i: a next anchor to page `target` (0: none) in front of
\* `details` anchors of the category group
ListingPage(i, details, target) ==
    (IF target = 0 THEN <<>> ELSE <<Anchor(PageHref(target), TextNextPage, "pages")>>)
    \o [k \in 1..details |-> Anchor(DetailHref(i, k), <<"A", Digit(k)>>, "group")]

\* the sites the model crawls: pages 1..n linked forward by next anchors,
\* every page with zero or two detail links, and the last page with no next
\* anchor or with one that leads back to a page of the site, itself included
Sites ==
    UNION { { [i \in 1..n |-> ListingPage(i, details[i], IF i < n THEN i + 1 ELSE target)] :
                details \in [1..n -> {0, 2}], target \in 0..n } :
            n \in 1..MaxPages }

\* start_urls[0]
StartUrl == BASE_URL \o PageHref(1)

\* the position of the listing page served at url, 0 when there is none
PageOf(s, url) ==
    IF \E i \in 1..Len(s) : url = BASE_URL \o PageHref(i)
    THEN CHOOSE i \in 1..Len(s) : url = BASE_URL \o PageHref(i)
    ELSE 0

\* the document served at url: a page without listing anchors when url is
\* not a listing page
Fetch(s, url) == IF PageOf(s, url) = 0 THEN <<>> ELSE s[PageOf(s, url)]

\* parse never yields the request of the next page
ParseRequestsNoNext(doc) ==
    LET links == CharacterLinksPath(doc)
    IN  [i \in 1..Len(links) |-> CharacterRequest(links[i])]

\* parse yields the request of the next page twice
ParseRequestsNextTwice(doc) ==
    LET links == CharacterLinksPath(doc)
        next == XPathGet(NextPagePath(doc))
    IN  [i \in 1..Len(links) |-> CharacterRequest(links[i])]
        \o (IF Truthy(next) THEN <<NextPageRequest(next), NextPageRequest(next)>> ELSE <<>>)

\* list(parse(response)): all the requests one parse call yields (lines 33-42)
ParseRequests(doc) ==
    LET links == CharacterLinksPath(doc)
        next == XPathGet(NextPagePath(doc))
    IN  [i \in 1..Len(links) |-> CharacterRequest(links[i])]
        \o (IF Truthy(next) THEN <<NextPageRequest(next)>> ELSE <<>>)

\* the requests of a sequence as a bag
Scheduled(reqs) == [r \in Range(reqs) |-> Cardinality({ i \in 1..Len(reqs) : reqs[i] = r })]

InitCrawl ==
    /\ site \in Sites
    /\ frontier = SetToBag({Request(StartUrl, "parse")})
    /\ visits = [i \in 1..Len(site) |-> 0]
    /\ detailed = {}
    /\ turn = 0
    /\ CharacterIdle
    /\ ParseIdle
    /\ MongoIdle
    /\ FramesIdle

\* a request with callback parse is fetched and parse runs on the response
\* (the page, the response and the requests yielded are each computed once)
crawl_parse ==
    /\ BagCardinality(frontier) <= MaxFrontier
    /\ \E r \in BagToSet(frontier) :
        /\ r.callback = "parse"
        /\ \E page \in {PageOf(site, r.url)} : \E doc \in {Fetch(site, r.url)} :
           \E yielded \in {ParseRequests(doc)} :
            /\ frontier' = (frontier (-) SetToBag({r})) (+) Scheduled(yielded)
            /\ visits' = [i \in 1..Len(site) |->
                            IF i = page /\ visits[i] < MaxVisits THEN visits[i] + 1 ELSE visits[i]]
    /\ turn' = 1 - turn
    /\ UNCHANGED <<site, detailed, characterVars, parseVars, mongoVars, frameVars>>

\* a request with callback parse_character is fetched; parse_character
\* yields no request
crawl_parse_character ==
    /\ \E r \in BagToSet(frontier) :
        /\ r.callback = "parse_character"
        /\ frontier' = frontier (-) SetToBag({r})
        /\ detailed' = detailed \cup {r.url}
    /\ turn' = 1 - turn
    /\ UNCHANGED <<site, visits, characterVars, parseVars, mongoVars, frameVars>>

NextCrawl ==
    \/ crawl_parse
    \/ crawl_parse_character

\* the engine fetches every request it holds, sooner or later
SpecCrawl ==
    /\ InitCrawl
    /\ [][NextCrawl]_vars
    /\ WF_crawlVars(crawl_parse)
    /\ WF_crawlVars(crawl_parse_character)

TypeOKCrawl ==
    /\ site \in Sites
    /\ IsABag(frontier)
    /\ BagCardinality(frontier) <= MaxFrontier + 2
    /\ \A r \in BagToSet(frontier) : r.callback \in {"parse", "parse_character"}
    /\ \A i \in 1..Len(site) : visits[i] \in 0..MaxVisits
    /\ turn \in {0, 1}
    /\ pc = "idle"
    /\ gpc = "idle"
    /\ phase = "idle"

(***************************************************************************)
(* What the specification says about crawl continuation.                    *)
(***************************************************************************)
\* the page the next anchor of page i leads to, 0 when page i has none
NextOf(s, i) ==
    IF NextAnchorIdx(s[i]) = {} THEN 0
    ELSE CHOOSE j \in 1..Len(s) : s[i][Min(NextAnchorIdx(s[i]))].href = PageHref(j)

RECURSIVE Walk(_, _, _)
\* the pages met when the next anchors are followed from page i on, up to the
\* first page without next anchor or the first page met twice
Walk(s, i, path) ==
    IF i = 0 THEN path
    ELSE IF i \in Range(path) THEN Append(path, i)
    ELSE Walk(s, NextOf(s, i), Append(path, i))

\* the next chain from the start page ends in a page without next anchor
FiniteChain(s) == NoDuplicates(Walk(s, 1, <<>>))

\* the next chain from the start page leads back to a page already met
BackwardChain(s) == ~NoDuplicates(Walk(s, 1, <<>>))

\* the crawl has stopped: no request is left and none can be produced
Stopped == frontier = EmptyBag

\* C25: on a finite next chain the crawl stops: no page is ever parsed twice,
\* and eventually, for good, no request is left, every page of the chain has
\* been parsed exactly once (and no other page), and every detail link of
\* the chain has been requested.
C25_FiniteChainStops ==
    /\ [](FiniteChain(site) => \A i \in 1..Len(site) : visits[i] <= 1)
    /\ <>[](FiniteChain(site) =>
              /\ Stopped
              /\ \A i \in 1..Len(site) :
                    visits[i] = IF i \in Range(Walk(site, 1, <<>>)) THEN 1 ELSE 0
              /\ detailed = UNION { { BASE_URL \o site[i][a].href : a \in DetailAnchorIdx(site[i]) } :
                                    i \in Range(Walk(site, 1, <<>>)) })

\* C25 witness: a chain of three pages was crawled to its end, detail links included
C25_Witness ==
    /\ Len(site) = 3
    /\ Walk(site, 1, <<>>) = <<1, 2, 3>>
    /\ Stopped
    /\ \A i \in 1..3 : visits[i] = 1
    /\ Cardinality(detailed) >= 4

\* parse has just run and left a continuation request with the scheduler
ContinuationProduced ==
    /\ crawl_parse
    /\ \E r \in BagToSet(frontier') : r.callback = "parse"

\* C26: without cycle detection, on a next chain that leads back to a page
\* already parsed, the scheduler always holds a continuation request, parse
\* produces one again and again, and the crawl never stops.
C26_BackwardChainNeverStops ==
    /\ [](BackwardChain(site) =>
            ~Stopped /\ \E r \in BagToSet(frontier) : r.callback = "parse")
    /\ BackwardChain(site) => []<><<ContinuationProduced>>_crawlVars
    /\ <>(BackwardChain(site) => \E i \in 1..Len(site) : visits[i] = MaxVisits)

\* C26 witness: page 3 leads back to page 2, and page 2 has been parsed again
C26_Witness ==
    /\ Len(site) = 3
    /\ Walk(site, 1, <<>>) = <<1, 2, 3, 2>>
    /\ visits[2] = MaxVisits
    /\ visits[1] = 1
    /\ \E r \in BagToSet(frontier) : r.callback = "parse"

(***************************************************************************)
(* Several parse_character invocations at once.  Each invocation has a      *)
(* frame with its argument and its locals; the scheduler starts invocations *)
(* at any time and lets any running one take its next step.                 *)
(***************************************************************************)
\* the pages handed to concurrent invocations: the named example page, a
\* page of another subject with one image, a page with rows only, a page
\* without heading and a page whose name holds a double quote
FrameDocs ==
    { ExamplePageNamed,
      Doc(<< [id |-> "firstHeading", kids |-> <<Txt(IkeLower)>>] >>,
          << Img(SrcLower, "image", "noTab") >>, <<>>),
      Doc(HeadingIke, <<>>,
          << Row(HdrAppearances, <<Li(<<Link(<<"F","E">>, <<>>)>>)>>),
             Row(HdrTitles, <<P(<<Txt(<<"H","e","r","o">>)>>)>>),
             Row(HdrVoiced, <<Li(<<Link(NameDL, None), El("small", TagEnglish)>>)>>) >>),
      Doc(<<>>, << Img(SrcIke, "image", Block) >>, <<>>),
      Doc(<< [id |-> "firstHeading", kids |-> <<Txt(IkeQuoted)>>] >>, <<>>, <<>>) }

\* parse_character(response) has been called: character_item = CharacterItem()
NewFrame(doc) ==
    [response |-> doc, character_item |-> EmptyItem, pc |-> "parse_name", result |-> "pending"]

\* the next statement of parse_character in frame f (lines 56-65)
StepFrame(f) ==
    CASE f.pc = "parse_name" ->
            LET name == XPathGet(HeadingTextNodes(f.response))
            IN  IF Truthy(name)
                THEN [f EXCEPT !.character_item = SetField(@, "name", name), !.pc = "parse_images"]
                ELSE [f EXCEPT !.pc = "done", !.result = "None"]
      [] f.pc = "parse_images" ->
            IF \/ ~XPathWellFormed(f.character_item["name"])
               \/ RemoveRaises(f.response, f.character_item["name"])
            THEN [f EXCEPT !.pc = "done", !.result = "raised"]
            ELSE [f EXCEPT !.character_item = WithImages(f.response, @), !.pc = "parse_appearances"]
      [] f.pc = "parse_appearances" ->
            [f EXCEPT !.character_item = WithAppearances(f.response, @), !.pc = "parse_titles"]
      [] f.pc = "parse_titles" ->
            [f EXCEPT !.character_item = WithTitles(f.response, @), !.pc = "parse_voice_actors"]
      [] f.pc = "parse_voice_actors" ->
            [f EXCEPT !.character_item = WithVoiceActors(f.response, @),
                      !.pc = "done", !.result = "item"]

\* the item is an attribute of the spider: every invocation works on the
\* one item object
AdvanceSharedItem(fs, i) ==
    [j \in 1..Len(fs) |->
        IF j = i THEN StepFrame(fs[i])
        ELSE [fs[j] EXCEPT !.character_item = StepFrame(fs[i]).character_item]]

\* invocation i takes its next step: only its own frame changes
Advance(fs, i) == [fs EXCEPT ![i] = StepFrame(fs[i])]

InitFrames ==
    /\ frames = <<>>
    /\ CharacterIdle
    /\ ParseIdle
    /\ MongoIdle
    /\ CrawlIdle

\* the scheduler hands a response to parse_character
frame_call ==
    /\ Len(frames) < MaxFrames
    /\ \E doc \in FrameDocs : frames' = Append(frames, NewFrame(doc))
    /\ UNCHANGED <<characterVars, parseVars, mongoVars, crawlVars>>

\* a running invocation executes its next statement
frame_step ==
    /\ \E i \in 1..Len(frames) :
        /\ frames[i].pc # "done"
        /\ frames' = Advance(frames, i)
    /\ UNCHANGED <<characterVars, parseVars, mongoVars, crawlVars>>

NextFrames ==
    \/ frame_call
    \/ frame_step

SpecFrames == InitFrames /\ [][NextFrames]_vars

TypeOKFrames ==
    /\ Len(frames) <= MaxFrames
    /\ \A i \in 1..Len(frames) :
        /\ frames[i].response \in FrameDocs
        /\ DOMAIN frames[i].character_item \subseteq Fields
        /\ frames[i].pc \in {"parse_name", "parse_images", "parse_appearances", "parse_titles",
                             "parse_voice_actors", "done"}
        /\ frames[i].result \in {"pending", "None", "item", "raised"}
    /\ FrameDocs \subseteq DetailDocs
    /\ pc = "idle"
    /\ gpc = "idle"
    /\ phase = "idle"

(***************************************************************************)
(* What the specification says about concurrent invocations.               *)
(***************************************************************************)
\* what parse_character leaves when it processes doc alone: the outcome and
\* the item it has built
Alone(doc) ==
    LET name == XPathGet(HeadingTextNodes(doc))
        named == SetField(EmptyItem, "name", name)
    IN  IF ~Truthy(name) THEN [result |-> "None", character_item |-> EmptyItem]
        ELSE IF ~XPathWellFormed(name) \/ RemoveRaises(doc, name)
        THEN [result |-> "raised", character_item |-> named]
        ELSE [result |-> "item",
              character_item |->
                  WithVoiceActors(doc, WithTitles(doc, WithAppearances(doc, WithImages(doc, named))))]

\* a single invocation ends as Alone says
AloneAgrees ==
    pc = "done" => Alone(response) = [result |-> result, character_item |-> character_item]

\* C27: in any interleaving every invocation starts from a fresh, empty
\* record and ends with exactly the outcome and the record it has when its
\* document is processed alone, so that nothing extracted from one document
\* shows in the record of another.
C27_StatelessBetweenInvocations ==
    \A i \in 1..Len(frames) :
        /\ frames[i].pc = "parse_name" => frames[i].character_item = EmptyItem
        /\ frames[i].pc = "done" =>
            /\ frames[i].result = Alone(frames[i].response).result
            /\ frames[i].character_item = Alone(frames[i].response).character_item

\* C27 witness: two invocations on different pages have both returned a
\* record, each with fields the other lacks
C27_Witness ==
    /\ Len(frames) = 2
    /\ \A i \in 1..2 : frames[i].pc = "done" /\ frames[i].result = "item"
    /\ frames[1].response # frames[2].response
    /\ Has(frames[1].character_item, "primaryImage") /\ ~Has(frames[2].character_item, "primaryImage")
    /\ Has(frames[2].character_item, "titles") /\ ~Has(frames[1].character_item, "titles")

====
